---- MODULE Spec2Model ----
(***************************************************************************)
(* Dues/payment ledger of maintenance_tracker.py: load_data, save_data,    *)
(* PaymentTracker.check_late_payments and ResidentInterface.make_payment,  *)
(* driven by the script runs of one Streamlit session (__main__ -> main).  *)
(*                                                                         *)
(* A row of the residents DataFrame is a record over Columns.  The         *)
(* presentation columns (Name, Phone, Email) and the never-read            *)
(* 'Last Payment Month' column are left out; House is the row key.         *)
(***************************************************************************)
EXTENDS Integers, Sequences, FiniteSets, TLC

\* ---------------------------------------------------------------- constants
LATE_FEE == 1000
FIRST_DUE_DATE == 10
NumHouses == 40
DefaultMaintenance == 2000

\* ------------------------------------------------------------------- bounds
MaxMonth == 2          \* billing months 1..MaxMonth are explored
MaxPayments == 2       \* payments submitted, all sessions together

Houses == 1..NumHouses
\* house numbers typed into "Enter Your House Number" (min_value=1, max_value=40)
PayingHouses == {1, 2}
\* days of the month explored: the last day without fee and the first with it
Days == {FIRST_DUE_DATE, FIRST_DUE_DATE + 1}
\* time of day: 0 is 00:00:00.000000 exactly, 1 is any later time of the day
Times == {0, 1}
\* amounts typed into "Enter Payment Amount" (min_value=0, step=100)
Amounts == {0, 3000}
\* Extra Charges found in an existing ledger file
ExtraChoices == {0, 500}

Columns == {"Paid", "LastPaymentDate", "PaymentHistory", "MaintenanceAmount",
            "ExtraCharges", "LateFees", "TotalDues", "PaymentStatus"}
\* columns an existing ledger file may lack
OptionalColumns == {"TotalDues"}
\* columns the ledger files of InitialFiles never carry (always backfilled)
BackfilledColumns == {"LastPaymentDate", "PaymentHistory"}

\* ------------------------------------------------------------ date handling
\* Python None in the 'Last Payment Date' column
None == [kind |-> "None"]

\* datetime.now(): billing month ym (year and month folded into one index),
\* day of month, time of day
Datetime(ym, day, tod) == [kind |-> "datetime", ym |-> ym, day |-> day, tod |-> tod]

\* dt.strftime('%Y-%m-%d'): the time of day is dropped
strftime(dt) == [kind |-> "str", ym |-> dt.ym, day |-> dt.day]

\* datetime.strptime(s, '%Y-%m-%d'): midnight of that day
strptime(s) == Datetime(s.ym, s.day, 0)

\* a 'Last Payment Date' cell holding text that is not a '%Y-%m-%d' date
Malformed == [kind |-> "str", text |-> "not-a-date"]

\* datetime.strptime(s, '%Y-%m-%d') returns; otherwise it raises ValueError
Parses(s) == s # Malformed

\* dt.replace(day=1): only the day is replaced, the time of day is kept
replace_day1(dt) == Datetime(dt.ym, 1, dt.tod)

\* dt1 < dt2 on datetimes
DatetimeLess(a, b) ==
    \/ a.ym < b.ym
    \/ a.ym = b.ym /\ a.day < b.day
    \/ a.ym = b.ym /\ a.day = b.day /\ a.tod < b.tod

\* ---------------------------------------------------------------- load/save
VARIABLE
    disk         \* maintenance_data.xlsx: NoFile or a file

NoFile == [kind |-> "NoFile"]

\* required_columns: the default cell of every column
required_columns ==
    [Paid |-> FALSE, LastPaymentDate |-> None, PaymentHistory |-> << >>,
     MaintenanceAmount |-> DefaultMaintenance, ExtraCharges |-> 0, LateFees |-> 0,
     TotalDues |-> 0, PaymentStatus |-> "Unpaid"]

\* the read-and-backfill branch of load_data: a column the file lacks is
\* filled with its default, a column it has is taken as stored
Backfill(file) ==
    [h \in Houses |->
        [c \in Columns |-> IF c \in file.cols THEN file.rows[h][c]
                           ELSE required_columns[c]]]

\* a save that keeps the row on disk when its history is longer than the
\* saving session's
to_excel_KeepNewer(df) ==
    [kind |-> "File", cols |-> Columns,
     rows |-> [h \in Houses |->
                IF Len(disk.rows[h].PaymentHistory) > Len(df[h].PaymentHistory)
                THEN disk.rows[h] ELSE df[h]]]

\* save_data: the whole DataFrame, every column, replaces the file
to_excel(df) == [kind |-> "File", cols |-> Columns, rows |-> df]

\* the ledger a load of store d would return equals df
StoreHolds(d, df) == d # NoFile /\ Backfill(d) = df

\* a row of a ledger file that reconciles, with the given extra charges
FileRow(extra) ==
    [required_columns EXCEPT !.ExtraCharges = extra,
                             !.TotalDues = DefaultMaintenance + extra]

\* ledger files found at start-up: every house at its defaults, the paying
\* houses with the same extra charges, some optional columns absent
InitialFiles ==
    { [kind |-> "File",
       cols |-> Columns \ (BackfilledColumns \cup missing),
       rows |-> [h \in Houses |-> IF h \in PayingHouses THEN FileRow(extra)
                                  ELSE FileRow(0)]] :
        missing \in SUBSET OptionalColumns,
        extra \in ExtraChoices }

\* a well-formed 'Last Payment Date' cell of the billing month before month 1
PriorDate == [kind |-> "str", ym |-> 0, day |-> FIRST_DUE_DATE]

\* ledger files that carry the 'Last Payment Date' column: every house paid
\* in the month before, and the cell of one house is not a date
DatedFiles ==
    { [kind |-> "File",
       cols |-> Columns \ {"PaymentHistory"},
       rows |-> [h \in Houses |->
                    [FileRow(0) EXCEPT !.LastPaymentDate =
                        IF h = bad THEN Malformed ELSE PriorDate]]] :
        bad \in PayingHouses }

\* ------------------------------------------------------------------- sweep
\* the condition of lines 82-84 on one row, today being datetime.now()
SweepDelinquent(resident, today) ==
    LET raw == resident.LastPaymentDate
        last_payment_date == IF raw.kind = "str" THEN strptime(raw) ELSE raw
        current_month == replace_day1(today)
    IN  \/ last_payment_date = None
        \/ /\ last_payment_date.kind = "datetime"
           /\ DatetimeLess(replace_day1(last_payment_date), current_month)

\* a sweep that adds the fee to the fee already there
AppliedLateFee_Accumulating(resident) == resident.LateFees + LATE_FEE

\* the late fee written by line 87
AppliedLateFee(resident) == LATE_FEE

\* PaymentTracker.check_late_payments over the whole DataFrame
check_late_payments(df, today) ==
    [h \in Houses |->
        IF SweepDelinquent(df[h], today) /\ today.day > FIRST_DUE_DATE
        THEN [df[h] EXCEPT !.LateFees = AppliedLateFee(df[h]),
                           !.TotalDues = df[h].MaintenanceAmount
                                         + df[h].ExtraCharges + LATE_FEE]
        ELSE df[h]]

\* line 80 raises on the row of house h: a string that strptime rejects
RaisesAt(df, h) ==
    df[h].LastPaymentDate.kind = "str" /\ ~Parses(df[h].LastPaymentDate)

\* some row makes the loop of check_late_payments raise
SweepRaises(df) == \E h \in Houses : RaisesAt(df, h)

\* the first row, in iterrows order, on which the loop raises
FirstRaising(df) ==
    CHOOSE h \in Houses : RaisesAt(df, h) /\ \A g \in 1..(h - 1) : ~RaisesAt(df, g)

\* check_late_payments when a row raises: the rows before it have been
\* written (.loc writes in place), that row and the rows after it have not
check_late_payments_raising(df, today) ==
    [h \in Houses |->
        IF h < FirstRaising(df) THEN check_late_payments(df, today)[h] ELSE df[h]]

\* PaymentTracker.calculate_dues
calculate_dues(df, house_number) ==
    df[house_number].MaintenanceAmount + df[house_number].ExtraCharges
        + df[house_number].LateFees

\* ----------------------------------------------------------------- payment
\* the history entry f"{payment_date}: <rupee sign>{payment_amount}"
HistoryEntry(payment_date, payment_amount) ==
    [date |-> payment_date, amount |-> payment_amount]

\* a recorder that replaces the history by the new entry
AppendHistory_Overwrite(history, entry) == << entry >>

\* history.append(entry)
AppendHistory(history, entry) == Append(history, entry)

\* the Submit Payment branch of make_payment, up to the save
make_payment(df, house_number, payment_amount, today) ==
    LET payment_date == strftime(today)
    IN  [df EXCEPT ![house_number] =
            [@ EXCEPT !.Paid = TRUE,
                      !.LastPaymentDate = payment_date,
                      !.PaymentHistory =
                          AppendHistory(@, HistoryEntry(payment_date, payment_amount)),
                      !.ExtraCharges = 0]]

\* -------------------------------------------------------------------- state
VARIABLES
    residents,   \* st.session_state.residents; None before load_data
    today,       \* the wall clock, datetime.now()
    pc,          \* position of the session's script run
    message,     \* what the current script run has shown: st.success of make_payment
    payments,    \* payments submitted so far in this session
    sweeps,      \* consecutive sweeps with no payment and no clock change between (capped at 2)
    sessionB     \* a second browser session on the same file: its own pc,
                 \* st.session_state.residents, message and payments

vars == <<disk, residents, today, pc, message, payments, sweeps, sessionB>>

NoMessage == [kind |-> "none"]
Success(house_number, payment_amount) ==
    [kind |-> "success", house |-> house_number, amount |-> payment_amount]

\* the second session when nobody has opened it
SessionOff == [pc |-> "off", residents |-> None, message |-> NoMessage, payments |-> 0]

\* the second session opened, before its first script run
SessionStart == [SessionOff EXCEPT !.pc = "start"]

Init ==
    /\ disk \in {NoFile} \cup InitialFiles \cup DatedFiles
    /\ residents = None
    /\ today \in {Datetime(1, d, t) : d \in Days, t \in Times}
    /\ pc = "start"
    /\ message = NoMessage
    /\ payments = 0
    /\ sweeps = 0
    /\ sessionB = SessionOff

\* __main__, first run of the session, the ledger file exists: read and backfill
LoadData ==
    /\ pc = "start"
    /\ disk # NoFile
    /\ residents' = Backfill(disk)
    /\ pc' = "main"
    /\ UNCHANGED <<disk, today, message, payments, sweeps, sessionB>>

\* __main__, first run of the session, no ledger file: the else branch of
\* load_data reads required_columns, a local bound only in the if branch, and
\* the run ends with UnboundLocalError
LoadDataNoFile ==
    /\ pc = "start"
    /\ disk = NoFile
    /\ pc' = "crashed"
    /\ UNCHANGED <<disk, residents, today, message, payments, sweeps, sessionB>>

\* main: PaymentTracker.check_late_payments() at the top of every script run
CheckLatePayments ==
    /\ pc = "main"
    /\ ~SweepRaises(residents)
    /\ residents' = check_late_payments(residents, today)
    /\ sweeps' = IF sweeps < 2 THEN sweeps + 1 ELSE 2
    /\ pc' = "page"
    /\ UNCHANGED <<disk, today, message, payments, sessionB>>

\* main: check_late_payments() meets a 'Last Payment Date' string that
\* strptime rejects (line 80, no try/except): ValueError ends the script run
CheckLatePaymentsRaises ==
    /\ pc = "main"
    /\ SweepRaises(residents)
    /\ residents' = check_late_payments_raising(residents, today)
    /\ sweeps' = 0
    /\ pc' = "crashed"
    /\ UNCHANGED <<disk, today, message, payments, sessionB>>

\* Resident / Make Payment with Submit Payment pressed
MakePayment ==
    /\ pc = "page"
    /\ payments + sessionB.payments < MaxPayments
    /\ \E house_number \in PayingHouses, payment_amount \in Amounts :
        /\ residents' = make_payment(residents, house_number, payment_amount, today)
        /\ disk' = to_excel(residents')
        /\ message' = Success(house_number, payment_amount)
    /\ payments' = payments + 1
    /\ sweeps' = 0
    /\ pc' = "idle"
    /\ UNCHANGED <<today, sessionB>>

\* any other page of main, or Make Payment without the button: reads only
OtherPage ==
    /\ pc = "page"
    /\ pc' = "idle"
    /\ UNCHANGED <<disk, residents, today, message, payments, sweeps, sessionB>>

\* the next script run of the same session: residents stays in session_state
Rerun ==
    /\ pc = "idle"
    /\ pc' = "main"
    /\ message' = NoMessage
    /\ UNCHANGED <<disk, residents, today, payments, sweeps, sessionB>>

\* the wall clock moves forward between two script runs
Tick ==
    /\ pc = "idle"
    /\ \E ym \in 1..MaxMonth, d \in Days, t \in Times :
        /\ DatetimeLess(today, Datetime(ym, d, t))
        /\ today' = Datetime(ym, d, t)
    /\ sweeps' = 0
    /\ UNCHANGED <<disk, residents, pc, message, payments, sessionB>>

Next ==
    \/ LoadData
    \/ LoadDataNoFile
    \/ CheckLatePayments
    \/ CheckLatePaymentsRaises
    \/ MakePayment
    \/ OtherPage
    \/ Rerun
    \/ Tick

Spec == Init /\ [][Next]_vars

\* ------------------------------------------------- two concurrent sessions
\* the first session's state, left alone by a step of the second
varsA == <<residents, pc, message, payments, sweeps>>

\* __main__ in the second session, first run: its own load of the same file
LoadDataB ==
    /\ sessionB.pc = "start"
    /\ disk # NoFile
    /\ sessionB' = [sessionB EXCEPT !.residents = Backfill(disk), !.pc = "main"]
    /\ UNCHANGED <<disk, today, varsA>>

\* main in the second session: the sweep over its own copy
CheckLatePaymentsB ==
    /\ sessionB.pc = "main"
    /\ ~SweepRaises(sessionB.residents)
    /\ sessionB' = [sessionB EXCEPT
                        !.residents = check_late_payments(sessionB.residents, today),
                        !.pc = "page"]
    /\ UNCHANGED <<disk, today, varsA>>

\* Submit Payment in the second session: its own copy is changed and saved
MakePaymentB ==
    /\ sessionB.pc = "page"
    /\ payments + sessionB.payments < MaxPayments
    /\ \E house_number \in PayingHouses, payment_amount \in Amounts :
        /\ sessionB' = [sessionB EXCEPT
                !.residents = make_payment(sessionB.residents, house_number,
                                           payment_amount, today),
                !.message = Success(house_number, payment_amount),
                !.payments = @ + 1,
                !.pc = "idle"]
        /\ disk' = to_excel(sessionB'.residents)
    /\ UNCHANGED <<today, varsA>>

\* any other page in the second session
OtherPageB ==
    /\ sessionB.pc = "page"
    /\ sessionB' = [sessionB EXCEPT !.pc = "idle"]
    /\ UNCHANGED <<disk, today, varsA>>

\* the next script run of the second session
RerunB ==
    /\ sessionB.pc = "idle"
    /\ sessionB' = [sessionB EXCEPT !.pc = "main", !.message = NoMessage]
    /\ UNCHANGED <<disk, today, varsA>>

\* both sessions are opened on an existing ledger file, during one day
InitTwoSessions ==
    /\ disk \in InitialFiles
    /\ residents = None
    /\ today \in {Datetime(1, d, 1) : d \in Days}
    /\ pc = "start"
    /\ message = NoMessage
    /\ payments = 0
    /\ sweeps = 0
    /\ sessionB = SessionStart

\* the script runs of the two sessions interleave
NextTwoSessions ==
    \/ LoadData
    \/ CheckLatePayments
    \/ MakePayment
    \/ OtherPage
    \/ Rerun
    \/ LoadDataB
    \/ CheckLatePaymentsB
    \/ MakePaymentB
    \/ OtherPageB
    \/ RerunB

SpecTwoSessions == InitTwoSessions /\ [][NextTwoSessions]_vars

\* the session holds a ledger
Loaded == pc \in {"main", "page", "idle"}

\* the step taken is the sweep of a script run
SweepStep == pc = "main" /\ pc' = "page"

\* the step taken records a payment for house h
PaymentStep(h) == pc = "page" /\ message'.kind = "success" /\ message'.house = h

\* a date string d lies in the billing month of datetime t
InBillingMonth(d, t) == d.kind = "str" /\ d.ym = t.ym

\* d1 is a strictly earlier calendar date than d2
DateBefore(d1, d2) == d1.ym < d2.ym \/ (d1.ym = d2.ym /\ d1.day < d2.day)

\* ------------------------------------------------------------------ claims

\* C1: in every state where the session holds a ledger, every unit has
\* Total Dues = Maintenance Amount + Extra Charges + Late Fees.
C1_TotalDuesReconciles ==
    Loaded => \A h \in Houses : residents[h].TotalDues = calculate_dues(residents, h)

\* C2: right after a payment is recorded for a unit, that unit has
\* Extra Charges = 0, Late Fees = 0 and Total Dues = Maintenance Amount.
C2_PaymentClearsCharges ==
    (pc = "idle" /\ message.kind = "success") =>
        LET r == residents[message.house]
        IN  r.ExtraCharges = 0 /\ r.LateFees = 0 /\ r.TotalDues = r.MaintenanceAmount

\* C3: the step that records a payment for a unit sets Last Payment Date to
\* today, Paid to true and Payment Status to 'Paid'; and in every state a unit
\* is Paid exactly when its Payment Status is 'Paid'.
C3_PaymentMarksPaid ==
    [][Loaded' =>
        \A h \in Houses :
            /\ PaymentStep(h) =>
                /\ residents'[h].LastPaymentDate = strftime(today)
                /\ residents'[h].Paid
                /\ residents'[h].PaymentStatus = "Paid"
            /\ residents'[h].Paid <=> residents'[h].PaymentStatus = "Paid"]_vars

\* C4: one sweep over a unit whose Last Payment Date is absent or in an earlier
\* billing month sets Late Fees = 1000, Payment Status = 'Late' and
\* Total Dues = Maintenance Amount + Extra Charges + 1000 when today's day is
\* greater than FIRST_DUE_DATE, and leaves it 'Unpaid' with Late Fees = 0 otherwise.
C4_SweepClassifies ==
    [][SweepStep =>
        \A h \in Houses :
            (\/ residents[h].LastPaymentDate = None
             \/ residents[h].LastPaymentDate.ym < today.ym) =>
                IF today.day > FIRST_DUE_DATE
                THEN /\ residents'[h].LateFees = LATE_FEE
                     /\ residents'[h].PaymentStatus = "Late"
                     /\ residents'[h].TotalDues = residents[h].MaintenanceAmount
                            + residents[h].ExtraCharges + LATE_FEE
                ELSE /\ residents'[h].PaymentStatus = "Unpaid"
                     /\ residents'[h].LateFees = 0]_vars

\* C5: a sweep leaves Late Fees and Total Dues unchanged for every unit whose
\* Last Payment Date lies in today's billing month.
C5_PaidThisMonthNotSwept ==
    [][SweepStep =>
        \A h \in Houses :
            InBillingMonth(residents[h].LastPaymentDate, today) =>
                /\ residents'[h].LateFees = residents[h].LateFees
                /\ residents'[h].TotalDues = residents[h].TotalDues]_vars

\* C6: a sweep that follows a sweep, with no payment and no clock change in
\* between, leaves the ledger exactly as the first sweep left it, and no
\* sweep leaves Late Fees at anything but 0 or the single flat amount.
C6_SweepIdempotent ==
    [][SweepStep =>
        /\ sweeps >= 1 => residents' = residents
        /\ \A h \in Houses : residents'[h].LateFees \in {0, LATE_FEE}]_vars

\* C6 witness: a second consecutive sweep has run on a ledger carrying the fee
C6_Witness ==
    /\ pc = "page"
    /\ sweeps = 2
    /\ \E h \in Houses : residents[h].LateFees = LATE_FEE

\* C7: once the sweep of a script run has run, every unit with Paid = true
\* has its Last Payment Date inside today's billing month.
C7_PaidOnlyThisCycle ==
    pc = "page" =>
        \A h \in Houses :
            residents[h].Paid => InBillingMonth(residents[h].LastPaymentDate, today)

\* C8: whenever a sweep or a recorded payment has changed the in-memory
\* ledger, the durable store holds the same ledger when the operation is done.
C8_PersistedAfterMutation ==
    [][(pc \in {"main", "page"} /\ residents' # residents) =>
            StoreHolds(disk', residents')]_vars

C10_SeedWhenNoFile ==
    (disk = NoFile /\ pc # "start") =>
        /\ pc # "crashed"
        /\ residents = [h \in 1..NumHouses |-> required_columns]

\* C11: a sweep over a ledger in which some unit's Last Payment Date is not
\* a date does not abort: it completes its pass, and on a day after
\* FIRST_DUE_DATE it has charged that unit, and every unit after it whose
\* last payment is in an earlier month, the flat late fee.
C11_SweepSurvivesBadDate ==
    [][(pc = "main" /\ pc' # "main" /\ SweepRaises(residents)) =>
        /\ pc' = "page"
        /\ today.day > FIRST_DUE_DATE =>
              \A h \in Houses :
                  (RaisesAt(residents, h) \/ residents[h].LastPaymentDate = PriorDate)
                      => residents'[h].LateFees = LATE_FEE]_vars

\* the step taken records a payment for house h in the second session
PaymentStepB(h) ==
    /\ sessionB.pc = "page"
    /\ sessionB'.message.kind = "success"
    /\ sessionB'.message.house = h

\* C12: when the first session has recorded and saved a payment for unit x
\* that the second session's copy, loaded before that save, does not have,
\* and the second session then records and saves a payment for another
\* unit y, the file holds exactly the second session's ledger: the row of x
\* is the second session's stale row and the first session's payment is gone.
C12_LastWriterWins ==
    [][\A x \in Houses, y \in PayingHouses :
        (/\ PaymentStepB(y)
         /\ x # y
         /\ Loaded
         /\ residents[x].PaymentHistory # << >>
         /\ disk.rows[x].PaymentHistory = residents[x].PaymentHistory
         /\ sessionB.residents[x].PaymentHistory = << >>)
        => /\ disk'.rows = sessionB'.residents
           /\ disk'.rows[x] = sessionB.residents[x]
           /\ disk'.rows[x].PaymentHistory = << >>
           /\ ~disk'.rows[x].Paid]_vars

\* C12 witness: the second session has just saved a payment for y, and the
\* file no longer has the payment the first session recorded for x
C12_Witness ==
    /\ Loaded
    /\ sessionB.pc = "idle"
    /\ sessionB.message.kind = "success"
    /\ disk # NoFile
    /\ disk.rows = sessionB.residents
    /\ \E x \in Houses :
        /\ x # sessionB.message.house
        /\ residents[x].PaymentHistory # << >>
        /\ residents[x].Paid
        /\ disk.rows[x].PaymentHistory = << >>

====
